---- MODULE Spec2Model ----
(***************************************************************************)
(* State-machine model of the Descify metadata backend                     *)
(* (src-tauri/src/services/exiftool.rs, src-tauri/src/commands/metadata.rs,*)
(* src-tauri/src/models/metadata.rs).                                      *)
(*                                                                         *)
(* A Rust String is a sequence of atoms: single characters where the code  *)
(* inspects characters (trim, split), whole literal chunks elsewhere.      *)
(* format!("lit{}", v) is the concatenation <<"lit">> \o v.                *)
(* Option<T> is None or Some(v); Result<T, String> is Ok(v) or Err(e).     *)
(***************************************************************************)
EXTENDS Integers, Sequences, FiniteSets, TLC

VARIABLES
    call,         \* the command the frontend invoked: embed_metadata(request) or read_exif_metadata_command(file_path)
    fs,           \* the target files: path -> "file" | "dir" | "missing"
    env,          \* the installation: platform, directory of the running executable, bundled tool files
    pc,           \* "pending" until the handler has run, then "done"
    result,       \* the handler's return value (NoResult while pending)
    invocations,  \* the commands on which Command::output() was called during the operation
    output        \* what Command::output() returned (NoOutput if it was never called)

vars == <<call, fs, env, pc, result, invocations, output>>

-----------------------------------------------------------------------------
(* Bounds of the model *)

MaxTextLen == 2     \* longest title / description drawn
MaxKwLen == 4       \* longest keywords string drawn
MaxKeys == 2        \* most keys in an object of the tool's JSON output

-----------------------------------------------------------------------------
(* Option and Result *)

None == [some |-> FALSE]
Some(v) == [some |-> TRUE, v |-> v]
Ok(v) == [ok |-> TRUE, value |-> v]
Err(e) == [ok |-> FALSE, error |-> e]

NoResult == [ok |-> "pending"]
NoOutput == [called |-> FALSE]

-----------------------------------------------------------------------------
(* Strings: str::trim and str::split as the builder uses them *)

IsWhitespace(c) == c \in {" ", "\t", "\n", "\r"}

RECURSIVE TrimStart(_)
TrimStart(s) ==
    IF s = <<>> THEN <<>>
    ELSE IF IsWhitespace(Head(s)) THEN TrimStart(Tail(s)) ELSE s

RECURSIVE TrimEnd(_)
TrimEnd(s) ==
    IF s = <<>> THEN <<>>
    ELSE IF IsWhitespace(s[Len(s)]) THEN TrimEnd(SubSeq(s, 1, Len(s) - 1)) ELSE s

Trim(s) == TrimEnd(TrimStart(s))

\* str::split(sep): the segments between separators; "" splits into one empty segment
RECURSIVE SplitFrom(_, _, _)
SplitFrom(s, sep, cur) ==
    IF s = <<>> THEN <<cur>>
    ELSE IF Head(s) = sep THEN <<cur>> \o SplitFrom(Tail(s), sep, <<>>)
    ELSE SplitFrom(Tail(s), sep, Append(cur, Head(s)))

Split(s, sep) == SplitFrom(s, sep, <<>>)

\* [T]::join(sep)
RECURSIVE Join(_, _)
Join(list, sep) ==
    IF list = <<>> THEN <<>>
    ELSE IF Len(list) = 1 THEN list[1]
    ELSE list[1] \o sep \o Join(Tail(list), sep)

-----------------------------------------------------------------------------
(* Tool Locator: services/exiftool.rs get_exiftool_path *)

\* PathBuf::join: a path is its sequence of components
PathJoin(dir, name) == Append(dir, name)

exiftool_name == IF env.os = "windows" THEN "exiftool.exe" ELSE "exiftool"

\* get_exiftool_path probing the resources subdirectory before the executable's directory
get_exiftool_path_ResourcesFirst ==
    IF env.exe_dir.some
    THEN LET resource_dir == env.exe_dir.v
             bundled_path == PathJoin(resource_dir, exiftool_name)
             resources_path == PathJoin(PathJoin(resource_dir, "resources"), exiftool_name)
         IN  IF resources_path \in env.files THEN resources_path
             ELSE IF bundled_path \in env.files THEN bundled_path
             ELSE <<"exiftool">>
    ELSE <<"exiftool">>

get_exiftool_path ==
    IF env.exe_dir.some
    THEN LET resource_dir == env.exe_dir.v
             bundled_path == PathJoin(resource_dir, exiftool_name)
             resources_path == PathJoin(PathJoin(resource_dir, "resources"), exiftool_name)
         IN  IF bundled_path \in env.files THEN bundled_path
             ELSE IF resources_path \in env.files THEN resources_path
             ELSE <<"exiftool">>
    ELSE <<"exiftool">>

\* {:?} of a PathBuf: the path between double quotes
DebugPath(p) == <<"\"">> \o p \o <<"\"">>

-----------------------------------------------------------------------------
(* Request Validator: services/exiftool.rs validate_file, has_metadata *)

PathExists(file_path) == fs[file_path] # "missing"
PathIsFile(file_path) == fs[file_path] = "file"

EmbedMetadataResult(success, message, file_path) ==
    [success |-> success, message |-> message, file_path |-> file_path]

\* validate_file with the existence check left out
validate_file_NoExistsCheck(file_path) ==
    IF ~PathIsFile(file_path)
    THEN Some(EmbedMetadataResult(FALSE, <<"Path is not a file: ">> \o file_path, file_path))
    ELSE None

validate_file(file_path) ==
    IF ~PathExists(file_path)
    THEN Some(EmbedMetadataResult(FALSE, <<"File does not exist: ">> \o file_path, file_path))
    ELSE IF ~PathIsFile(file_path)
    THEN Some(EmbedMetadataResult(FALSE, <<"Path is not a file: ">> \o file_path, file_path))
    ELSE None

\* has_metadata asking for content instead of presence
has_metadata_RequiresContent(request) ==
    \/ request.title.some /\ Trim(request.title.v) # <<>>
    \/ request.description.some /\ Trim(request.description.v) # <<>>
    \/ request.keywords.some /\ Trim(request.keywords.v) # <<>>

\* has_metadata with the last test negated
has_metadata_KeywordsNegated(request) ==
    request.title.some \/ request.description.some \/ ~request.keywords.some

has_metadata(request) ==
    request.title.some \/ request.description.some \/ request.keywords.some

-----------------------------------------------------------------------------
(* Command Builder: services/exiftool.rs build_exiftool_command *)

\* format!("-TAG={}", value)
TagArg(tag, value) == <<tag>> \o value

TitleArgs(request) ==
    IF request.title.some /\ Trim(request.title.v) # <<>>
    THEN << TagArg("-XMP:Title=", request.title.v),
            TagArg("-IPTC:ObjectName=", request.title.v),
            TagArg("-EXIF:ImageDescription=", request.title.v) >>
    ELSE <<>>

DescriptionArgs(request) ==
    IF request.description.some /\ Trim(request.description.v) # <<>>
    THEN << TagArg("-XMP:Description=", request.description.v),
            TagArg("-EXIF:ImageDescription=", request.description.v),
            TagArg("-IPTC:Caption-Abstract=", request.description.v) >>
    ELSE <<>>

\* KeywordList without the trim of each segment
KeywordList_NoTrim(keywords) ==
    SelectSeq(Split(keywords, ","), LAMBDA k : k # <<>>)

\* keywords.split(',').map(|k| k.trim()).filter(|k| !k.is_empty()).collect()
KeywordList(keywords) ==
    LET segments == Split(keywords, ",")
        trimmed == [i \in 1..Len(segments) |-> Trim(segments[i])]
    IN  SelectSeq(trimmed, LAMBDA k : k # <<>>)

\* KeywordArgs handing IPTC:Keywords the cleaned list instead of the original string
KeywordArgs_IptcJoined(request) ==
    IF request.keywords.some /\ Trim(request.keywords.v) # <<>>
    THEN LET keyword_list == KeywordList(request.keywords.v)
         IN  IF keyword_list # <<>>
             THEN [i \in 1..Len(keyword_list) |-> TagArg("-XMP:Subject=", keyword_list[i])]
                  \o << TagArg("-IPTC:Keywords=", Join(keyword_list, <<",">>)) >>
             ELSE <<>>
    ELSE <<>>

KeywordArgs(request) ==
    IF request.keywords.some /\ Trim(request.keywords.v) # <<>>
    THEN LET keyword_list == KeywordList(request.keywords.v)
         IN  IF keyword_list # <<>>
             THEN [i \in 1..Len(keyword_list) |-> TagArg("-XMP:Subject=", keyword_list[i])]
                  \o << TagArg("-IPTC:Keywords=", request.keywords.v) >>
             ELSE <<>>
    ELSE <<>>

\* build_exiftool_command with the description block before the title block
build_exiftool_command_DescriptionFirst(exiftool_path, request) ==
    [program |-> exiftool_path,
     args |-> DescriptionArgs(request) \o TitleArgs(request) \o KeywordArgs(request)
              \o << <<"-overwrite_original">> >> \o << request.file_path >>]

build_exiftool_command(exiftool_path, request) ==
    [program |-> exiftool_path,
     args |-> TitleArgs(request) \o DescriptionArgs(request) \o KeywordArgs(request)
              \o << <<"-overwrite_original">> >> \o << request.file_path >>]

-----------------------------------------------------------------------------
(* Process Executor: services/exiftool.rs execute_exiftool *)
(* out is what Command::output() returned: a finished child process        *)
(* (status, stdout, stderr) or an io::Error (kind, text).                  *)

Exited(status, stdout, stderr) ==
    [called |-> TRUE, ok |-> TRUE, status |-> status, stdout |-> stdout, stderr |-> stderr]
SpawnFailed(kind, text) ==
    [called |-> TRUE, ok |-> FALSE, kind |-> kind, text |-> text]

\* ExitStatus::success
StatusSuccess(status) == status.some /\ status.v = 0

\* output.status.code().unwrap_or(-1)
StatusCodeOr(status, default) == IF status.some THEN status.v ELSE default

\* execute_exiftool propagating a failed spawn with `?` instead of reporting it
execute_exiftool_PropagatesSpawnError(out, request, exiftool_path) ==
    IF out.ok
    THEN IF StatusSuccess(out.status)
         THEN Ok(EmbedMetadataResult(TRUE,
                    <<"Metadata successfully embedded">>
                    \o (IF out.stderr # <<>> THEN <<" Warning: ">> \o out.stderr ELSE <<>>),
                    request.file_path))
         ELSE Ok(EmbedMetadataResult(FALSE,
                    <<"Failed to embed metadata. Exit code: ", ToString(StatusCodeOr(out.status, -1)),
                      ". Stderr: ">> \o out.stderr,
                    request.file_path))
    ELSE Err(<<"Failed to execute exiftool: ">> \o out.text)

\* execute_exiftool judging success by the spawn alone, not by the exit status
execute_exiftool_IgnoresStatus(out, request, exiftool_path) ==
    IF out.ok
    THEN Ok(EmbedMetadataResult(TRUE,
               <<"Metadata successfully embedded">>
               \o (IF out.stderr # <<>> THEN <<" Warning: ">> \o out.stderr ELSE <<>>),
               request.file_path))
    ELSE Ok(EmbedMetadataResult(FALSE, <<"Failed to execute exiftool: ">> \o out.text,
                                request.file_path))

execute_exiftool(out, request, exiftool_path) ==
    IF out.ok
    THEN IF StatusSuccess(out.status)
         THEN Ok(EmbedMetadataResult(TRUE,
                    <<"Metadata successfully embedded">>
                    \o (IF out.stderr # <<>> THEN <<" Warning: ">> \o out.stderr ELSE <<>>),
                    request.file_path))
         ELSE Ok(EmbedMetadataResult(FALSE,
                    <<"Failed to embed metadata. Exit code: ", ToString(StatusCodeOr(out.status, -1)),
                      ". Stderr: ">> \o out.stderr,
                    request.file_path))
    ELSE LET error_msg ==
                 IF out.kind = "NotFound"
                 THEN <<"Failed to execute exiftool: ">> \o out.text
                      \o <<" - ExifTool not found. Please install ExifTool or ensure it's bundled with the application. Tried path: ">>
                      \o DebugPath(exiftool_path)
                 ELSE <<"Failed to execute exiftool: ">> \o out.text
         IN  Ok(EmbedMetadataResult(FALSE, error_msg, request.file_path))

-----------------------------------------------------------------------------
(* Metadata Normalizer: services/exiftool.rs read_exif_metadata *)

\* serde_json::Value
JNull == [t |-> "null"]
JNum(n) == [t |-> "num", num |-> n]
JStr(s) == [t |-> "str", str |-> s]
JArr(items) == [t |-> "arr", items |-> items]
JObj(map) == [t |-> "obj", map |-> map]

\* Value::get(key): the member of an object, None for a missing key or a non-object
Get(value, key) ==
    IF value.t = "obj" /\ key \in DOMAIN value.map THEN Some(value.map[key]) ELSE None

as_str(value) == IF value.t = "str" THEN Some(value.str) ELSE None
as_array(value) == IF value.t = "arr" THEN Some(value.items) ELSE None

\* from_str followed by unwrap_or_default: a parse error becomes Value::Null
from_str_OrDefault(stdout) ==
    IF stdout.wellformed THEN Ok(stdout.doc) ELSE Ok(JNull)

\* serde_json::from_str: stdout is the text the tool printed; a well-formed
\* text stands for the document it denotes, any other text is a parse error
from_str(stdout) ==
    IF stdout.wellformed THEN Ok(stdout.doc) ELSE Err(stdout.err)

TitleKeys ==
    << "XMP:Title", "Title", "IPTC:ObjectName", "ObjectName",
       "EXIF:ImageDescription", "ImageDescription", "PNG:Title", "MWG:Title" >>

DescriptionKeys ==
    << "XMP:Description", "Description", "IPTC:Caption-Abstract", "Caption-Abstract",
       "CaptionAbstract", "EXIF:ImageDescription", "ImageDescription",
       "PNG:Description", "MWG:Description" >>

KeywordsKeys ==
    << "XMP:Subject", "Subject", "IPTC:Keywords", "Keywords", "XMP-dc:Subject", "dc:Subject" >>

\* metadata.get(k1).or_else(|| metadata.get(k2))...: the first key that is present
RECURSIVE FirstPresent(_, _)
FirstPresent(metadata, keys) ==
    IF keys = <<>> THEN None
    ELSE LET found == Get(metadata, Head(keys))
         IN  IF found.some THEN found ELSE FirstPresent(metadata, Tail(keys))

\* TextField falling through to the first candidate key whose value is text
TextField_FallsThrough(metadata, keys) ==
    LET texts == SelectSeq(keys, LAMBDA k : Get(metadata, k).some /\ as_str(Get(metadata, k).v).some)
    IN  IF texts = <<>> THEN None ELSE as_str(Get(metadata, texts[1]).v)

\* .and_then(|v| v.as_str()).map(|s| s.to_string())
TextField(metadata, keys) ==
    LET found == FirstPresent(metadata, keys)
    IN  IF found.some THEN as_str(found.v) ELSE None

\* arr.iter().filter_map(|item| item.as_str()).collect()
StrItems(arr) ==
    LET strs == SelectSeq(arr, LAMBDA item : as_str(item).some)
    IN  [i \in 1..Len(strs) |-> strs[i].str]

\* KeywordsValue joining with a bare comma
KeywordsValue_JoinsWithComma(v) ==
    IF as_array(v).some
    THEN LET kw_list == StrItems(as_array(v).v)
         IN  IF kw_list # <<>> THEN Some(Join(kw_list, <<",">>)) ELSE None
    ELSE IF as_str(v).some THEN Some(as_str(v).v)
    ELSE None

\* the closure applied to the matched keywords value
KeywordsValue(v) ==
    IF as_array(v).some
    THEN LET kw_list == StrItems(as_array(v).v)
         IN  IF kw_list # <<>> THEN Some(Join(kw_list, <<",", " ">>)) ELSE None
    ELSE IF as_str(v).some THEN Some(as_str(v).v)
    ELSE None

KeywordsField(metadata) ==
    LET found == FirstPresent(metadata, KeywordsKeys)
    IN  IF found.some THEN KeywordsValue(found.v) ELSE None

ExifData(file_path, title, description, keywords) ==
    [file_path |-> file_path, title |-> title, description |-> description,
     keywords |-> keywords]

\* json_data.as_array().and_then(|arr| arr.first())
FirstItem(json_data) ==
    IF as_array(json_data).some /\ as_array(json_data).v # <<>>
    THEN Some(as_array(json_data).v[1])
    ELSE None

\* the body of read_exif_metadata once Command::output() has returned out
ReadOutcome(out, file_path, exiftool_path) ==
    IF out.ok
    THEN IF ~StatusSuccess(out.status)
         THEN Err(<<"ExifTool failed: ">> \o out.stderr)
         ELSE LET parsed == from_str(out.stdout)
              IN  IF ~parsed.ok
                  THEN Err(<<"Failed to parse ExifTool output: ">> \o parsed.error)
                  ELSE LET first == FirstItem(parsed.value)
                       IN  IF ~first.some
                           THEN Ok(ExifData(file_path, None, None, None))
                           ELSE Ok(ExifData(file_path,
                                            TextField(first.v, TitleKeys),
                                            TextField(first.v, DescriptionKeys),
                                            KeywordsField(first.v)))
    ELSE IF out.kind = "NotFound"
         THEN Err(<<"ExifTool not found. Tried path: ">> \o DebugPath(exiftool_path))
         ELSE Err(<<"Failed to execute ExifTool: ">> \o out.text)

\* the command read_exif_metadata builds: -json -n <file>
ReadCommand(exiftool_path, file_path) ==
    [program |-> exiftool_path, args |-> << <<"-json">>, <<"-n">>, file_path >>]

-----------------------------------------------------------------------------
(* Inputs: the requests, the files and the installations the handlers meet, *)
(* and what the external tool may answer                                    *)

Optional(S) == {None} \cup {Some(v) : v \in S}

\* every string over chars of length at most n
Strings(chars, n) == UNION {[1..k -> chars] : k \in 0..n}

TextChars == {"a", " "}
KwChars == {"a", "b", ",", " "}

Paths == { <<"photo.jpg">>, <<"clip.mp4">> }
Kinds == {"file", "dir", "missing"}

\* each path is a regular file, a directory and missing in one file system each
FileSystems ==
    { [p \in Paths |-> IF p = <<"photo.jpg">> THEN "file" ELSE "missing"],
      [p \in Paths |-> IF p = <<"photo.jpg">> THEN "dir" ELSE "file"],
      [p \in Paths |-> IF p = <<"photo.jpg">> THEN "missing" ELSE "dir"] }

\* requests that vary the keywords over every string, and requests that vary
\* title and description over every string
KeywordRequests ==
    [file_path : Paths,
     title : {None, Some(<<"a">>)},
     description : {None, Some(<<"a">>)},
     keywords : Optional(Strings(KwChars, MaxKwLen))]
TextRequests ==
    [file_path : Paths,
     title : Optional(Strings(TextChars, MaxTextLen)),
     description : Optional(Strings(TextChars, MaxTextLen)),
     keywords : {None, Some(<<" ">>), Some(<<"a">>), Some(<<"a", ",", "b">>)}]
Requests == KeywordRequests \cup TextRequests

EmbedCalls == {[cmd |-> "embed_metadata", request |-> r] : r \in Requests}
ReadCalls == {[cmd |-> "read_exif_metadata_command", file_path |-> p] : p \in Paths}

\* installations
AppDir == <<"opt", "descify">>
ToolCandidates ==
    { PathJoin(AppDir, "exiftool"), PathJoin(AppDir, "exiftool.exe"),
      PathJoin(PathJoin(AppDir, "resources"), "exiftool"),
      PathJoin(PathJoin(AppDir, "resources"), "exiftool.exe") }
Installs ==
    [os : {"windows", "linux"}, exe_dir : {None, Some(AppDir)}, files : SUBSET ToolCandidates]
\* the tool is not bundled and is looked up on the search path
DefaultEnv == [os |-> "linux", exe_dir |-> Some(AppDir), files |-> {}]

\* requests run under every installation
ProbeCalls ==
    {c \in EmbedCalls :
        /\ c.request.title \in {None, Some(<<"a">>), Some(<<" ">>)}
        /\ c.request.description = None
        /\ c.request.keywords = None}

\* answers of Command::output()
IoErrors ==
    { SpawnFailed("NotFound", <<"No such file or directory (os error 2)">>),
      SpawnFailed("PermissionDenied", <<"Permission denied (os error 13)">>) }
ExitStatuses == {Some(0), Some(1), Some(2), None}    \* None: ended by a signal
Stderrs == { <<>>, <<"Warning: [minor] Unsupported tag">> }

Malformed ==
    { [wellformed |-> FALSE, err |-> <<"EOF while parsing a value at line 1 column 0">>],
      [wellformed |-> FALSE, err |-> <<"expected value at line 1 column 1">>] }

EmbedOutputs ==
    {Exited(st, CHOOSE m \in Malformed : TRUE, se) : st \in ExitStatuses, se \in Stderrs}
    \cup IoErrors

\* values a tag may carry in the tool's JSON output
FieldValues ==
    { JStr(<<"A">>), JStr(<<"x", ",", " ", "y">>), JNum(7),
      JArr(<< JStr(<<"x">>), JStr(<<"y">>), JStr(<<"z">>) >>) }
\* further values, carried by the only tag of an object
LoneValues ==
    { JNull, JArr(<<>>), JArr(<< JNum(7) >>), JArr(<< JStr(<<"x">>), JNum(7) >>),
      JArr(<< JNum(7), JStr(<<"x">>), JNull, JStr(<<"y">>) >>),
      JObj([k \in {"XMP:Title"} |-> JStr(<<"A">>)]) }

Range(seq) == {seq[i] : i \in 1..Len(seq)}
AllKeys == Range(TitleKeys) \cup Range(DescriptionKeys) \cup Range(KeywordsKeys) \cup {"SourceFile"}

RECURSIVE KeySets(_)
KeySets(n) ==
    IF n = 0 THEN {{}}
    ELSE LET smaller == KeySets(n - 1)
         IN  smaller \cup {S \cup {k} : S \in smaller, k \in AllKeys}

LoneObjects == {JObj([k \in {key} |-> v]) : key \in AllKeys, v \in LoneValues}
Objects(n) ==
    {JObj(map) : map \in UNION {[S -> FieldValues] : S \in KeySets(n)}} \cup LoneObjects
Items(n) == Objects(n) \cup {JStr(<<"A">>), JNum(7), JNull}

\* a second record of the output array, which the normalizer never reads
Decoy == JObj([k \in {"XMP:Title", "XMP:Description", "XMP:Subject"} |-> JStr(<<"Z">>)])

Docs ==
    {JArr(<<>>)}
    \cup {JArr(<<item>>) : item \in Items(MaxKeys)}
    \cup {JArr(<<item, Decoy>>) : item \in Items(1)}
    \cup Items(1)

Stdouts == Malformed \cup {[wellformed |-> TRUE, doc |-> d] : d \in Docs}

ReadOutputs ==
    {Exited(Some(0), so, <<>>) : so \in Stdouts}
    \cup {Exited(st, CHOOSE m \in Malformed : TRUE, se) : st \in ExitStatuses \ {Some(0)}, se \in Stderrs}
    \cup {Exited(Some(0), [wellformed |-> TRUE, doc |-> JArr(<<>>)], se) : se \in Stderrs}
    \cup IoErrors

-----------------------------------------------------------------------------
(* The state machine *)

InitFull ==
    /\ call \in EmbedCalls \cup ReadCalls
    /\ env = DefaultEnv

InitInstalls ==
    /\ call \in ProbeCalls
    /\ env \in Installs

Init ==
    /\ InitFull \/ InitInstalls
    /\ fs \in FileSystems
    /\ pc = "pending"
    /\ result = NoResult
    /\ invocations = <<>>
    /\ output = NoOutput

\* commands/metadata.rs embed_metadata
embed_metadata ==
    /\ pc = "pending"
    /\ call.cmd = "embed_metadata"
    /\ LET request == call.request
           invalid == validate_file(request.file_path)
       IN  IF invalid.some
           THEN /\ result' = Ok(invalid.v)
                /\ UNCHANGED <<invocations, output>>
           ELSE IF ~has_metadata(request)
           THEN /\ result' = Ok(EmbedMetadataResult(TRUE, <<"No metadata provided to embed">>,
                                                    request.file_path))
                /\ UNCHANGED <<invocations, output>>
           ELSE LET exiftool_path == get_exiftool_path
                    cmd == build_exiftool_command(exiftool_path, request)
                IN  \E out \in EmbedOutputs :
                        /\ invocations' = Append(invocations, cmd)
                        /\ output' = out
                        /\ result' = execute_exiftool(out, request, exiftool_path)
    /\ pc' = "done"
    /\ UNCHANGED <<call, fs, env>>

\* services/exiftool.rs read_exif_metadata, called by read_exif_metadata_command
read_exif_metadata(file_path) ==
    IF ~PathExists(file_path)
    THEN /\ result' = Err(<<"File does not exist: ">> \o file_path)
         /\ UNCHANGED <<invocations, output>>
    ELSE IF ~PathIsFile(file_path)
    THEN /\ result' = Err(<<"Path is not a file: ">> \o file_path)
         /\ UNCHANGED <<invocations, output>>
    ELSE LET exiftool_path == get_exiftool_path
             cmd == ReadCommand(exiftool_path, file_path)
         IN  \E out \in ReadOutputs :
                 /\ invocations' = Append(invocations, cmd)
                 /\ output' = out
                 /\ result' = ReadOutcome(out, file_path, exiftool_path)

\* commands/metadata.rs read_exif_metadata_command
read_exif_metadata_command ==
    /\ pc = "pending"
    /\ call.cmd = "read_exif_metadata_command"
    /\ read_exif_metadata(call.file_path)
    /\ pc' = "done"
    /\ UNCHANGED <<call, fs, env>>

Next == embed_metadata \/ read_exif_metadata_command

Spec == Init /\ [][Next]_vars

-----------------------------------------------------------------------------
(* Properties *)

Done == pc = "done"
IsEmbed == call.cmd = "embed_metadata"
IsRead == call.cmd = "read_exif_metadata_command"
TargetPath == IF IsEmbed THEN call.request.file_path ELSE call.file_path
Invoked == invocations # <<>>

\* the text of a failure: the message of a result record, or the error value
FailureText == IF result.ok THEN result.value.message ELSE result.error

\* sub occurs in seq as a contiguous stretch
Contains(seq, sub) ==
    \E i \in 0..(Len(seq) - Len(sub)) : SubSeq(seq, i + 1, i + Len(sub)) = sub

EndsWith(seq, sub) ==
    Len(sub) <= Len(seq) /\ SubSeq(seq, Len(seq) - Len(sub) + 1, Len(seq)) = sub

AllAbsent(request) ==
    request.title = None /\ request.description = None /\ request.keywords = None

\* C1: an operation on a missing path fails with "File does not exist: <path>",
\* one on a path that is not a regular file fails with the different message
\* "Path is not a file: <path>"; embed_metadata reports it as a success=false
\* record echoing the path, read_exif_metadata as an error; neither calls the
\* tool, so a tool is only ever run on a regular file.
C1_InvalidPathRejectedBeforeSpawn ==
    Done =>
        /\ fs[TargetPath] = "missing" =>
              /\ ~Invoked /\ output = NoOutput
              /\ FailureText = <<"File does not exist: ">> \o TargetPath
              /\ Contains(FailureText, TargetPath)
        /\ fs[TargetPath] = "dir" =>
              /\ ~Invoked /\ output = NoOutput
              /\ FailureText = <<"Path is not a file: ">> \o TargetPath
              /\ FailureText[1] # "File does not exist: "
        /\ fs[TargetPath] # "file" =>
              IF IsEmbed
              THEN result.ok /\ result.value.success = FALSE
                   /\ result.value.file_path = TargetPath
              ELSE ~result.ok
        /\ Invoked => fs[TargetPath] = "file"

C1_Witness ==
    /\ Done /\ IsEmbed /\ ~AllAbsent(call.request)
    /\ fs[TargetPath] = "missing"
    /\ result.ok /\ ~result.value.success

\* C2 as stated: every embed_metadata request with title, description and
\* keywords all absent returns success=true with "No metadata provided to embed"
\* and the tool is not invoked.
C2_AllAbsentAlwaysNoOp ==
    (Done /\ IsEmbed /\ AllAbsent(call.request)) =>
        /\ result = Ok([success |-> TRUE, message |-> <<"No metadata provided to embed">>,
                        file_path |-> call.request.file_path])
        /\ ~Invoked

\* C2 (amended): an all-absent request whose path is an existing regular file
\* returns success=true with "No metadata provided to embed"; on any path an
\* all-absent request never invokes the tool.
C2_AllAbsentOnValidFileNoOp ==
    (Done /\ IsEmbed /\ AllAbsent(call.request)) =>
        /\ ~Invoked
        /\ fs[TargetPath] = "file" =>
              result = Ok([success |-> TRUE, message |-> <<"No metadata provided to embed">>,
                           file_path |-> call.request.file_path])

C2_Witness ==
    /\ Done /\ IsEmbed /\ AllAbsent(call.request)
    /\ fs[TargetPath] = "file"
    /\ result.ok /\ result.value.success

\* the expected conditions of C3
ToolNotFound == output.called /\ ~output.ok /\ output.kind = "NotFound"
ToolExitedNonZero ==
    output.called /\ output.ok /\ output.status.some /\ output.status.v # 0
ExpectedCondition ==
    fs[TargetPath] # "file" \/ ToolNotFound \/ ToolExitedNonZero
UnparsableOutput ==
    /\ output.called /\ output.ok /\ output.status = Some(0)
    /\ ~output.stdout.wellformed
IsResultRecord ==
    /\ result.ok
    /\ {"success", "message"} \subseteq DOMAIN result.value

\* C3 as stated: on both paths every expected condition is reported as a result
\* record with a success flag and a message, and only unparsable tool output is
\* an error value.
C3_ExpectedConditionsAreRecords ==
    Done =>
        /\ ExpectedCondition => IsResultRecord
        /\ ~result.ok => UnparsableOutput

\* C3 (amended): embed_metadata never returns an error value and reports every
\* expected condition as a success=false record with a message;
\* read_exif_metadata surfaces each expected condition, like unparsable output,
\* as an error value.
C3_RecordsOnWriteErrorsOnRead ==
    Done =>
        /\ IsEmbed => IsResultRecord
        /\ (IsEmbed /\ ExpectedCondition) =>
              result.value.success = FALSE /\ result.value.message # <<>>
        /\ (IsRead /\ (ExpectedCondition \/ UnparsableOutput)) =>
              ~result.ok /\ result.error # <<>>

C3_Witness ==
    /\ Done /\ IsEmbed /\ ToolNotFound
    /\ result.ok /\ ~result.value.success

\* C4: after the child process of an embed operation has exited, a non-zero
\* code gives success=false with the code and the whole standard error in the
\* message; code zero gives success=true with "Metadata successfully embedded",
\* followed by the standard error as a warning exactly when it is not empty.
\* Every result of embed_metadata echoes the request's file path.
C4_ExitStatusDecidesResult ==
    (Done /\ IsEmbed) =>
        /\ result.ok /\ result.value.file_path = call.request.file_path
        /\ ToolExitedNonZero =>
              /\ result.value.success = FALSE
              /\ Contains(result.value.message, <<ToString(output.status.v)>>)
              /\ EndsWith(result.value.message, output.stderr)
        /\ (output.called /\ output.ok /\ output.status = Some(0)) =>
              /\ result.value.success = TRUE
              /\ result.value.message[1] = "Metadata successfully embedded"
              /\ IF output.stderr = <<>>
                 THEN Len(result.value.message) = 1
                 ELSE /\ Len(result.value.message) > 1
                      /\ EndsWith(Tail(result.value.message), output.stderr)
                      /\ Tail(result.value.message) # output.stderr

C4_Witness ==
    /\ Done /\ IsEmbed /\ ToolExitedNonZero
    /\ output.status.v = 2 /\ output.stderr # <<>>
    /\ ~result.value.success

\* the arguments of the command the operation ran
RanArgs == invocations[1].args

NonBlank(opt) == opt.some /\ \E i \in 1..Len(opt.v) : ~IsWhitespace(opt.v[i])

IsKeywordArg(arg) == arg[1] \in {"-XMP:Subject=", "-IPTC:Keywords="}

ExpectedTitleArgs(request) ==
    IF NonBlank(request.title)
    THEN << <<"-XMP:Title=">> \o request.title.v,
            <<"-IPTC:ObjectName=">> \o request.title.v,
            <<"-EXIF:ImageDescription=">> \o request.title.v >>
    ELSE <<>>

ExpectedDescriptionArgs(request) ==
    IF NonBlank(request.description)
    THEN << <<"-XMP:Description=">> \o request.description.v,
            <<"-EXIF:ImageDescription=">> \o request.description.v,
            <<"-IPTC:Caption-Abstract=">> \o request.description.v >>
    ELSE <<>>

\* C5: the command embed_metadata runs has, in this order, the three title
\* assignments iff the title is present and non-blank, the three description
\* assignments iff the description is present and non-blank, the keyword
\* arguments (none when keywords is absent), -overwrite_original, and the file
\* path as the last argument.
C5_ArgumentSequence ==
    (Done /\ IsEmbed /\ Invoked) =>
        LET request == call.request
            head == ExpectedTitleArgs(request) \o ExpectedDescriptionArgs(request)
            n == Len(RanArgs)
        IN  /\ Len(invocations) = 1
            /\ n >= Len(head) + 2
            /\ SubSeq(RanArgs, 1, Len(head)) = head
            /\ \A i \in (Len(head) + 1)..(n - 2) : IsKeywordArg(RanArgs[i])
            /\ request.keywords = None => n = Len(head) + 2
            /\ RanArgs[n - 1] = <<"-overwrite_original">>
            /\ RanArgs[n] = request.file_path

C5_Witness ==
    /\ Done /\ IsEmbed /\ Invoked
    /\ NonBlank(call.request.title) /\ NonBlank(call.request.description)
    /\ call.request.title # call.request.description
    /\ Len(RanArgs) = 8

\* the keywords of s, stated on positions: a keyword is a stretch a..b without
\* comma that starts and ends with a non-blank character and has only blanks
\* between it and the comma (or string end) on either side
IsKeywordSpan(s, a, b) ==
    /\ a <= b
    /\ \A k \in a..b : s[k] # ","
    /\ ~IsWhitespace(s[a]) /\ ~IsWhitespace(s[b])
    /\ \A k \in 1..(a - 1) : (\A m \in k..(a - 1) : s[m] # ",") => IsWhitespace(s[k])
    /\ \A k \in (b + 1)..Len(s) : (\A m \in (b + 1)..k : s[m] # ",") => IsWhitespace(s[k])

KeywordSpans(s) ==
    {x \in (1..Len(s)) \X (1..Len(s)) : IsKeywordSpan(s, x[1], x[2])}

ExpectedKeywords(s) ==
    LET spans == KeywordSpans(s)
    IN  [i \in 1..Cardinality(spans) |->
            LET x == CHOOSE x \in spans : Cardinality({y \in spans : y[1] < x[1]}) = i - 1
            IN  SubSeq(s, x[1], x[2])]

RanKeywordArgs == SelectSeq(RanArgs, IsKeywordArg)

\* C6: for keywords present and non-blank, the keyword arguments are one
\* -XMP:Subject per comma-separated, trimmed, non-empty segment, in order,
\* followed by one -IPTC:Keywords carrying the string as given; when no segment
\* remains there is no keyword argument.
C6_KeywordArguments ==
    (Done /\ IsEmbed /\ Invoked /\ NonBlank(call.request.keywords)) =>
        LET s == call.request.keywords.v
            expected == ExpectedKeywords(s)
        IN  RanKeywordArgs =
                IF Len(expected) = 0 THEN <<>>
                ELSE [i \in 1..Len(expected) |-> <<"-XMP:Subject=">> \o expected[i]]
                     \o << <<"-IPTC:Keywords=">> \o s >>

C6_Witness ==
    /\ Done /\ IsEmbed /\ Invoked
    /\ call.request.keywords = Some(<<" ", "a", ",", "b">>)
    /\ RanKeywordArgs = << <<"-XMP:Subject=", "a">>, <<"-XMP:Subject=", "b">>,
                           <<"-IPTC:Keywords=", " ", "a", ",", "b">> >>

\* the keywords the command hands to XMP:Subject
RanSubjects ==
    LET subjectArgs == SelectSeq(RanArgs, LAMBDA arg : arg[1] = "-XMP:Subject=")
    IN  [i \in 1..Len(subjectArgs) |-> Tail(subjectArgs[i])]

\* C10: the keyword list the builder derives is a fixed point of its own
\* normalisation: joined with ", ", trimmed and split/trimmed/filtered again,
\* it is the same list.
C10_KeywordListIdempotent ==
    (Done /\ IsEmbed /\ Invoked /\ call.request.keywords.some) =>
        KeywordList(Trim(Join(RanSubjects, <<",", " ">>))) = RanSubjects

C10_Witness ==
    /\ Done /\ IsEmbed /\ Invoked /\ call.request.keywords.some
    /\ Len(RanSubjects) = 2
    /\ Join(RanSubjects, <<",", " ">>) # call.request.keywords.v
    /\ Trim(call.request.keywords.v) # call.request.keywords.v

\* read_exif_metadata ran the tool, which exited with code zero
ReadExitedZero ==
    /\ Done /\ IsRead
    /\ output.called /\ output.ok /\ output.status = Some(0)

\* ... and printed an array with at least one item
ReadGotItem ==
    /\ ReadExitedZero
    /\ output.stdout.wellformed
    /\ output.stdout.doc.t = "arr" /\ output.stdout.doc.items # <<>>

GotItem == output.stdout.doc.items[1]

TitleCandidates ==
    << "XMP:Title", "Title", "IPTC:ObjectName", "ObjectName", "EXIF:ImageDescription",
       "ImageDescription", "PNG:Title", "MWG:Title" >>
DescriptionCandidates ==
    << "XMP:Description", "Description", "IPTC:Caption-Abstract", "Caption-Abstract",
       "CaptionAbstract", "EXIF:ImageDescription", "ImageDescription", "PNG:Description",
       "MWG:Description" >>
KeywordCandidates ==
    << "XMP:Subject", "Subject", "IPTC:Keywords", "Keywords", "XMP-dc:Subject", "dc:Subject" >>

\* the value of the highest-priority candidate key present in item, if any
TopCandidate(item, candidates) ==
    LET present == {i \in 1..Len(candidates) :
                        item.t = "obj" /\ candidates[i] \in DOMAIN item.map}
    IN  IF present = {} THEN None
        ELSE LET top == CHOOSE i \in present : \A j \in present : i <= j
             IN  Some(item.map[candidates[top]])

ExpectedText(item, candidates) ==
    LET matched == TopCandidate(item, candidates)
    IN  IF matched.some /\ matched.v.t = "str" THEN Some(matched.v.str) ELSE None

\* C7: title and description of the read result are decided by the
\* highest-priority candidate key present in the first output item: its value
\* when that is text, absent when it is not text or no candidate is present.
\* [{"XMP:Title":"A","IPTC:Keywords":"x, y"}] gives title "A", keywords "x, y"
\* and no description.
C7_TextFieldsByPriority ==
    ReadGotItem =>
        /\ result.ok
        /\ result.value.title = ExpectedText(GotItem, TitleCandidates)
        /\ result.value.description = ExpectedText(GotItem, DescriptionCandidates)
        /\ GotItem = JObj(("XMP:Title" :> JStr(<<"A">>))
                          @@ ("IPTC:Keywords" :> JStr(<<"x", ",", " ", "y">>))) =>
              result.value = [file_path |-> TargetPath, title |-> Some(<<"A">>),
                              description |-> None,
                              keywords |-> Some(<<"x", ",", " ", "y">>)]

C7_Witness ==
    /\ ReadGotItem
    /\ GotItem = JObj(("XMP:Title" :> JNum(7)) @@ ("Title" :> JStr(<<"A">>)))
    /\ result.value.title = None

\* the text entries of a list, in order
TextEntries(items) ==
    LET idx == {i \in 1..Len(items) : items[i].t = "str"}
    IN  [n \in 1..Cardinality(idx) |->
            items[CHOOSE i \in idx : Cardinality({j \in idx : j < i}) = n - 1].str]

\* C8 as stated: the value of the first present keywords candidate yields, when
\* it is a list, its entries joined with ", "; when text, itself; otherwise
\* absence.
C8_ListJoinsItsEntries ==
    ReadGotItem =>
        LET matched == TopCandidate(GotItem, KeywordCandidates)
        IN  matched.some =>
               IF matched.v.t = "arr"
               THEN /\ result.value.keywords.some
                    /\ (\A i \in 1..Len(matched.v.items) : matched.v.items[i].t = "str") =>
                          result.value.keywords.v = Join(TextEntries(matched.v.items), <<",", " ">>)
               ELSE IF matched.v.t = "str"
               THEN result.value.keywords = Some(matched.v.str)
               ELSE result.value.keywords = None

\* C8 (amended): a list yields its text entries joined with ", " in order,
\* entries that are not text being skipped, and absence when it has no text
\* entry; a text value yields itself; any other type, or no candidate present,
\* yields absence. ["x","y","z"] yields "x, y, z".
C8_ListJoinsItsTextEntries ==
    ReadGotItem =>
        LET matched == TopCandidate(GotItem, KeywordCandidates)
        IN  /\ result.ok
            /\ result.value.keywords =
                  IF ~matched.some THEN None
                  ELSE IF matched.v.t = "arr"
                  THEN IF TextEntries(matched.v.items) = <<>> THEN None
                       ELSE Some(Join(TextEntries(matched.v.items), <<",", " ">>))
                  ELSE IF matched.v.t = "str" THEN Some(matched.v.str)
                  ELSE None
            /\ GotItem = JObj("XMP:Subject" :> JArr(<<JStr(<<"x">>), JStr(<<"y">>), JStr(<<"z">>)>>)) =>
                  result.value.keywords = Some(<<"x", ",", " ", "y", ",", " ", "z">>)

C8_Witness ==
    /\ ReadGotItem
    /\ GotItem = JObj("XMP:Subject" :> JArr(<<JNum(7), JStr(<<"x">>), JNull, JStr(<<"y">>)>>))
    /\ result.value.keywords = Some(<<"x", ",", " ", "y">>)

\* C9: when the tool exits with code zero, the output [] gives the record with
\* the requested file path and no title, description or keywords; output that
\* does not parse gives an error value, never a record.
C9_EmptyArrayIsEmptyRecord ==
    ReadExitedZero =>
        /\ (output.stdout.wellformed /\ output.stdout.doc = JArr(<<>>)) =>
              result = Ok([file_path |-> TargetPath, title |-> None, description |-> None,
                           keywords |-> None])
        /\ ~output.stdout.wellformed =>
              /\ ~result.ok
              /\ result.error = <<"Failed to parse ExifTool output: ">> \o output.stdout.err

C9_Witness ==
    /\ ReadExitedZero
    /\ output.stdout.wellformed /\ output.stdout.doc = JArr(<<>>)
    /\ result.ok /\ result.value.file_path = TargetPath

\* the executable name of the platform, and the two bundled places
PlatformName == IF env.os = "windows" THEN "exiftool.exe" ELSE "exiftool"
BesideExe == env.exe_dir.v \o <<PlatformName>>
InResources == env.exe_dir.v \o <<"resources", PlatformName>>
BesideExeExists == env.exe_dir.some /\ BesideExe \in env.files
InResourcesExists == env.exe_dir.some /\ InResources \in env.files

\* C11 as stated: the locator returns the platform-named executable beside the
\* running executable if it exists, else the one in resources if it exists,
\* else the bare platform-named executable (exiftool.exe on Windows).
C11_FallbackIsPlatformName ==
    (Done /\ IsEmbed /\ Invoked) =>
        invocations[1].program =
            IF BesideExeExists THEN BesideExe
            ELSE IF InResourcesExists THEN InResources
            ELSE <<PlatformName>>

\* C11 (amended): the locator returns the platform-named executable beside the
\* running executable if it exists, else the one in the resources subdirectory
\* if it exists, else - also when the executable's directory is unknown - the
\* bare name exiftool, unchecked and without suffix on every platform. It is
\* the program of the command the operation runs, and no step changes the
\* installation or the files.
C11_LocatorResolution ==
    /\ [](/\ get_exiftool_path \in {<<"exiftool">>} \cup
                 (IF env.exe_dir.some THEN {BesideExe, InResources} ELSE {})
          /\ BesideExeExists => get_exiftool_path = BesideExe
          /\ (~BesideExeExists /\ InResourcesExists) => get_exiftool_path = InResources
          /\ (~BesideExeExists /\ ~InResourcesExists) => get_exiftool_path = <<"exiftool">>
          /\ (IsEmbed /\ Invoked) => invocations[1].program = get_exiftool_path)
    /\ [][env' = env /\ fs' = fs]_vars

C11_Witness ==
    /\ Done /\ IsEmbed /\ Invoked
    /\ env.os = "windows"
    /\ BesideExeExists /\ InResourcesExists
    /\ invocations[1].program = <<"opt", "descify", "exiftool.exe">>

\* every field of the request that is present is empty or whitespace only
AllPresentBlank(request) ==
    /\ ~NonBlank(request.title)
    /\ ~NonBlank(request.description)
    /\ ~NonBlank(request.keywords)

\* an operation on a regular file whose request has a field, but only blank ones
BlankOnlyRequest ==
    /\ IsEmbed
    /\ fs[TargetPath] = "file"
    /\ ~AllAbsent(call.request)
    /\ AllPresentBlank(call.request)

\* C12: a request on a regular file with at least one field present and every
\* present field blank runs the tool exactly once, with -overwrite_original and
\* the file path as its only arguments, and returns the outcome of that run,
\* not "No metadata provided to embed". No operation calls the tool more than
\* once, and a finished operation calls it no more.
C12_BlankFieldsStillInvoke ==
    /\ []((Done /\ BlankOnlyRequest) =>
            /\ Len(invocations) = 1
            /\ RanArgs = << <<"-overwrite_original">>, call.request.file_path >>
            /\ output.called
            /\ result.ok
            /\ result.value.message[1] # "No metadata provided to embed"
            /\ result.value.success = (output.ok /\ output.status = Some(0))
            /\ result.value.message[1] =
                  IF ~output.ok THEN "Failed to execute exiftool: "
                  ELSE IF output.status = Some(0) THEN "Metadata successfully embedded"
                  ELSE "Failed to embed metadata. Exit code: ")
    /\ [](Len(invocations) <= 1)
    /\ [][pc = "done" => invocations' = invocations]_vars

C12_Witness ==
    /\ Done /\ BlankOnlyRequest
    /\ call.request.title = Some(<<" ">>)
    /\ call.request.description = Some(<<>>)
    /\ call.request.keywords = Some(<<" ">>)
    /\ Len(invocations) = 1 /\ Len(RanArgs) = 2
    /\ output.ok /\ output.status = Some(1)
    /\ ~result.value.success

====
